---- MODULE Spec2Model ----
(***************************************************************************)
(* Model of the Flask application factory (app/app.py), the health route   *)
(* (app/api/health.py) and the notebook routes                             *)
(* (app/frontend/controllers.py).                                          *)
(*                                                                         *)
(* The factory create_app is a straight-line sequence of calls; each call  *)
(* is one action and pc is the position inside create_app.  Once the app   *)
(* is returned (pc = "done") requests are served, one per action.          *)
(***************************************************************************)
EXTENDS Integers, Sequences, FiniteSets, TLC

VARIABLES
    config,          \* create_app argument: the caller's config object or None
    app_name,        \* create_app argument / local: the application's name or "None"
    blueprints,      \* create_app argument / local: a list of blueprints or None
    environ,         \* os.environ: APPNAME_CONFIG and APPLICATION_MODE
    Config,          \* the attributes of the objects of the config module
    templates_dir,   \* os.listdir of templates/jupyter_notebooks
    pc,              \* position inside create_app
    app_config,      \* app.config: key -> the source whose value it holds
    layers,          \* the configuration sources applied so far, in order
    extensions,      \* the extensions whose init_app has run on the app
    db_config,       \* app.config as db.init_app saw it
    registered,      \* app.blueprints, in registration order
    error_handlers,  \* exception kind -> registered handler
    request,         \* the request served last
    endpoint,        \* the view function the request was routed to
    response         \* the response to the request served last

vars == <<config, app_name, blueprints, environ, Config, templates_dir, pc,
          app_config, layers, extensions, db_config, registered,
          error_handlers, request, endpoint, response>>

inputs == <<config, environ, Config, templates_dir>>
appvars == <<app_config, layers, extensions, db_config, registered, error_handlers>>
reqvars == <<request, endpoint, response>>

----------------------------------------------------------------------------
(* Bounds *)

\* longest stem (the part before the suffix) of a directory entry
MaxStem == 1
\* most entries in the notebook template directory
MaxDir == 2

----------------------------------------------------------------------------
(* Sequences *)

Range(s) == {s[i] : i \in 1..Len(s)}

SeqsUpTo(S, n) == UNION {[1..k -> S] : k \in 0..n}

\* str.endswith
endswith(s, suffix) ==
    /\ Len(s) >= Len(suffix)
    /\ SubSeq(s, Len(s) - Len(suffix) + 1, Len(s)) = suffix

----------------------------------------------------------------------------
(* File names: sequences of characters *)

DOT_HTML == <<".", "h", "t", "m", "l">>
DOT_TXT == <<".", "t", "x", "t">>
HTML == <<"h", "t", "m", "l">>

StemChars == {"a", "."}
Stems == SeqsUpTo(StemChars, MaxStem)
Suffixes == {<<>>, DOT_HTML, DOT_TXT, HTML}

\* os.listdir never returns "", "." or ".."
FileNames == {s \o x : s \in Stems, x \in Suffixes} \ {<<>>, <<".">>, <<".", ".">>}

IsInjective(s) == \A i, j \in 1..Len(s) : s[i] = s[j] => i = j

\* a directory listing: distinct entries in an arbitrary order
Listings == {d \in SeqsUpTo(FileNames, MaxDir) : IsInjective(d)}

\* os.path.splitext(p)[0] for a p without separators: cut at the last dot
\* unless everything before it is dots
LastDot(p) ==
    IF \E i \in 1..Len(p) : p[i] = "."
    THEN CHOOSE i \in 1..Len(p) : p[i] = "." /\ \A j \in (i+1)..Len(p) : p[j] # "."
    ELSE 0

splitext_root(p) ==
    LET dotIndex == LastDot(p) IN
    IF dotIndex > 0 /\ \E i \in 1..(dotIndex - 1) : p[i] # "."
    THEN SubSeq(p, 1, dotIndex - 1)
    ELSE p

----------------------------------------------------------------------------
(* app/frontend/controllers.py *)

\* html_files = [i for i in jupyter_notebooks if i.endswith('.html')]
RECURSIVE html_files(_)
html_files(jupyter_notebooks) ==
    IF jupyter_notebooks = <<>> THEN <<>>
    ELSE (IF endswith(Head(jupyter_notebooks), DOT_HTML)
          THEN <<Head(jupyter_notebooks)>> ELSE <<>>)
         \o html_files(Tail(jupyter_notebooks))

\* html_file_roots = [os.path.splitext(i)[0] for i in html_files]
RECURSIVE html_file_roots(_)
html_file_roots(files) ==
    IF files = <<>> THEN <<>>
    ELSE <<splitext_root(Head(files))>> \o html_file_roots(Tail(files))

\* what render_template loads for "jupyter_notebooks/{}.html".format(notebook_name)
template_file(notebook_name) == notebook_name \o DOT_HTML

----------------------------------------------------------------------------
(* Responses (app/response.py) *)

NoResponse ==
    [kind |-> "none", status |-> 0, message |-> "", code |-> 0,
     template |-> <<>>, notebooks |-> <<>>]

\* Response.make_success_resp(msg): the JSON success envelope, status 200
make_success_resp(msg) ==
    [NoResponse EXCEPT !.kind = "success", !.status = 200, !.message = msg,
                       !.code = 200]

\* Response.make_error_resp(msg, code): the JSON error envelope {message, code}
\* sent with status code
make_error_resp(msg, code) ==
    [NoResponse EXCEPT !.kind = "error", !.status = code, !.message = msg,
                       !.code = code]

\* flask.render_template: an HTML page, status 200
render_template(template, notebooks) ==
    [NoResponse EXCEPT !.kind = "html", !.status = 200, !.template = template,
                       !.notebooks = notebooks]

\* an exception no handler is registered for and that is no HTTPException:
\* the request fails, the client is sent the server's 500 page
unhandled(exception) ==
    [NoResponse EXCEPT !.kind = "unhandled", !.status = 500,
                       !.message = exception]

\* an HTTPException no handler is registered for is its own (HTML) response
http_default(error) ==
    [NoResponse EXCEPT !.kind = "http_default", !.status = error.code,
                       !.message = error.description, !.code = error.code]

----------------------------------------------------------------------------
(* werkzeug.exceptions *)

HTTPCode ==
    [BadRequest |-> 400, Unauthorized |-> 401, Forbidden |-> 403,
     NotFound |-> 404, MethodNotAllowed |-> 405, BadGateway |-> 502]

HTTPKinds == DOMAIN HTTPCode

\* the class attribute description
DefaultDescription ==
    [BadRequest |-> "bad request", Unauthorized |-> "unauthorized",
     Forbidden |-> "forbidden", NotFound |-> "not found",
     MethodNotAllowed |-> "method not allowed", BadGateway |-> "bad gateway"]

Descriptions(kind) == {DefaultDescription[kind], "custom description"}

HTTPError(kind, description) ==
    [kind |-> kind, http |-> TRUE, code |-> HTTPCode[kind],
     description |-> description]

TemplateNotFound ==
    [kind |-> "TemplateNotFound", http |-> FALSE, code |-> 0,
     description |-> "template not found"]

\* Response.make_exception_resp(exception, code): the error envelope of
\* exception, sent with status code
make_exception_resp(exception, code) ==
    make_error_resp(DefaultDescription[exception], code)

----------------------------------------------------------------------------
(* Configuration sources *)

\* attribute names a config object or file may define; from_object copies
\* only the upper-case ones
Attrs == {"APP_NAME", "DEBUG", "secret"}

\* the attributes the objects of the config module may define
ModuleAttrs == {"DEBUG"}

isupper(key) == key \in {"APP_NAME", "DEBUG"}

Modes == {"DEVELOPMENT", "PRODUCTION"}

Unset == "unset"

\* flask.Config.from_object(obj): every upper-case attribute of obj is
\* assigned; a value is identified by the source that wrote it
from_object(cfg, source, attrs) ==
    [key \in Attrs |-> IF key \in attrs /\ isupper(key) THEN source ELSE cfg[key]]

\* Config.get_config(application_mode): the object of the deployment mode
get_config(application_mode) == Config[application_mode]

\* os.getenv('APPLICATION_MODE', 'DEVELOPMENT')
application_mode ==
    IF environ.APPLICATION_MODE = Unset THEN "DEVELOPMENT"
    ELSE environ.APPLICATION_MODE

\* configure_app with the deployment-mode object applied first instead of last
configure_app_mode_first ==
    LET c0 == from_object(app_config, application_mode, get_config(application_mode))
        c1 == from_object(c0, "DefaultConfig", Config.DefaultConfig)
        c2 == IF config.given THEN from_object(c1, "config", config.attrs) ELSE c1
        env == environ.APPNAME_CONFIG
    IN  IF env.set /\ ~env.readable
        THEN [raised |-> TRUE, config |-> c2]
        ELSE [raised |-> FALSE,
              config |-> IF env.set THEN from_object(c2, "APPNAME_CONFIG", env.attrs)
                         ELSE c2]

\* configure_app(app, config): the resulting app.config, or the IOError of
\* from_envvar when the file the variable names cannot be loaded
configure_app ==
    LET c1 == from_object(app_config, "DefaultConfig", Config.DefaultConfig)
        c2 == IF config.given THEN from_object(c1, "config", config.attrs) ELSE c1
        env == environ.APPNAME_CONFIG
    IN  IF env.set /\ ~env.readable
        THEN [raised |-> TRUE, config |-> c2]
        ELSE LET c3 == IF env.set THEN from_object(c2, "APPNAME_CONFIG", env.attrs)
                       ELSE c2
             IN  [raised |-> FALSE,
                  config |-> from_object(c3, application_mode,
                                         get_config(application_mode))]

\* the sources configure_app applies, in the order it applies them
config_layers ==
    <<"DefaultConfig">>
    \o (IF config.given THEN <<"config">> ELSE <<>>)
    \o (IF environ.APPNAME_CONFIG.set THEN <<"APPNAME_CONFIG">> ELSE <<>>)
    \o <<application_mode>>

----------------------------------------------------------------------------
(* Error handlers (configure_error_handlers) *)

\* handle_bad_gateway sending the bad-request code instead of error.code
handle_bad_gateway_400(error) ==
    make_exception_resp("BadRequest", HTTPCode.BadRequest)

handle_bad_gateway(error) == make_exception_resp("BadRequest", error.code)

handle_bad_request(error) == make_error_resp(error.description, error.code)

\* handle_not_found leaving code at make_error_resp's bad-request value
handle_not_found_default_code(error) ==
    make_error_resp(error.description, HTTPCode.BadRequest)

handle_not_found(error) == make_error_resp(error.description, error.code)

handle_unauthorized(error) == make_error_resp(error.description, error.code)

handle_forbidden(error) == make_error_resp(error.description, error.code)

\* the @app.errorhandler registrations: <<exception kind, handler>>
ErrorHandlers ==
    {<<"BadGateway", "handle_bad_gateway">>,
     <<"BadRequest", "handle_bad_request">>,
     <<"NotFound", "handle_not_found">>,
     <<"Unauthorized", "handle_unauthorized">>,
     <<"Forbidden", "handle_forbidden">>}

CallHandler(handler, error) ==
    CASE handler = "handle_bad_gateway" -> handle_bad_gateway(error)
      [] handler = "handle_bad_request" -> handle_bad_request(error)
      [] handler = "handle_not_found" -> handle_not_found(error)
      [] handler = "handle_unauthorized" -> handle_unauthorized(error)
      [] handler = "handle_forbidden" -> handle_forbidden(error)

\* Flask.handle_user_exception / handle_exception: the handler registered for
\* the exception's kind answers; failing that an HTTPException is its own
\* response and anything else is an unhandled failure
handle_user_exception(error) ==
    IF \E h \in error_handlers : h[1] = error.kind
    THEN CallHandler((CHOOSE h \in error_handlers : h[1] = error.kind)[2], error)
    ELSE IF error.http THEN http_default(error)
    ELSE unhandled(error.kind)

----------------------------------------------------------------------------
(* Views *)

Returned(r) == [raised |-> FALSE, response |-> r]
Raised(e) == [raised |-> TRUE, error |-> e]

\* health_check without its msg argument
health_check_empty == Returned(make_success_resp(""))

\* app/api/health.py
health_check == Returned(make_success_resp("OK"))

\* app/frontend/controllers.py
notebook_index ==
    LET jupyter_notebooks == templates_dir
    IN  Returned(render_template(<<"jupyter_notebooks.html">>,
                                 html_file_roots(html_files(jupyter_notebooks))))

\* jupyter_notebook with an existence check that aborts with NotFound
jupyter_notebook_checked(notebook_name) ==
    IF template_file(notebook_name) \in Range(templates_dir)
    THEN Returned(render_template(<<"jupyter_notebooks", template_file(notebook_name)>>,
                                  <<>>))
    ELSE Raised(HTTPError("NotFound", DefaultDescription.NotFound))

\* render_template raises TemplateNotFound when the loader finds no such file
jupyter_notebook(notebook_name) ==
    IF template_file(notebook_name) \in Range(templates_dir)
    THEN Returned(render_template(<<"jupyter_notebooks", template_file(notebook_name)>>,
                                  <<>>))
    ELSE Raised(TemplateNotFound)

\* the URL rules of the registered blueprints
url_map(path) ==
    CASE path = "/health" /\ "health" \in Range(registered) -> "health.health_check"
      [] path = "/notebooks" /\ "frontend" \in Range(registered) -> "frontend.notebook_index"
      [] path = "/notebooks/<notebook_name>" /\ "frontend" \in Range(registered)
            -> "frontend.jupyter_notebook"
      [] OTHER -> "none"

\* Flask.dispatch_request: routing raises NotFound when no rule matches
dispatch_request(path, notebook_name) ==
    LET rule == url_map(path) IN
    CASE rule = "health.health_check" -> health_check
      [] rule = "frontend.notebook_index" -> notebook_index
      [] rule = "frontend.jupyter_notebook" -> jupyter_notebook(notebook_name)
      [] OTHER -> Raised(HTTPError("NotFound", DefaultDescription.NotFound))

\* Flask.full_dispatch_request
full_dispatch_request(result) ==
    IF result.raised THEN handle_user_exception(result.error) ELSE result.response

----------------------------------------------------------------------------
(* create_app *)

DEFAULT_BLUEPRINTS == <<"health", "frontend">>

NoList == [is_none |-> TRUE, list |-> <<>>]
List(l) == [is_none |-> FALSE, list |-> l]

NoConfig == [given |-> FALSE, attrs |-> {}]

NoFile == [set |-> FALSE, readable |-> FALSE, attrs |-> {}]
UnreadableFile == [set |-> TRUE, readable |-> FALSE, attrs |-> {}]
File(attrs) == [set |-> TRUE, readable |-> TRUE, attrs |-> attrs]

NoRequest == [path |-> "", notebook_name |-> <<>>, raises |-> "none", description |-> ""]

\* the state before create_app is called with arguments and environment drawn
\* from the given sets
InitWith(ConfigModules, ConfigArgs, Files, ModeVars, NameArgs, BlueprintArgs, Dirs) ==
    /\ Config \in ConfigModules
    /\ config \in ConfigArgs
    /\ environ \in [APPNAME_CONFIG : Files, APPLICATION_MODE : ModeVars]
    /\ app_name \in NameArgs
    /\ blueprints \in BlueprintArgs
    /\ templates_dir \in Dirs
    /\ pc = "start"
    /\ app_config = [key \in Attrs |-> Unset]
    /\ layers = <<>>
    /\ extensions = {}
    /\ db_config = [key \in Attrs |-> Unset]
    /\ registered = <<>>
    /\ error_handlers = {}
    /\ request = NoRequest
    /\ endpoint = "none"
    /\ response = NoResponse

AllConfigModules ==
    [DefaultConfig : SUBSET ModuleAttrs, DEVELOPMENT : SUBSET ModuleAttrs,
     PRODUCTION : SUBSET ModuleAttrs]

AllConfigArgs == {NoConfig} \cup {[given |-> TRUE, attrs |-> a] : a \in SUBSET Attrs}

AllFiles == {NoFile, UnreadableFile} \cup {File(a) : a \in SUBSET {"DEBUG", "secret"}}

AllModeVars == {Unset} \cup Modes

AllNameArgs == {"None", "given"}

AllBlueprintArgs ==
    {NoList} \cup {List(l) : l \in {<<>>, <<"health">>, <<"frontend">>,
                                    <<"frontend", "health">>}}

\* one notebook directory, every combination of arguments and environment
Init ==
    InitWith(AllConfigModules, AllConfigArgs, AllFiles, AllModeVars, AllNameArgs,
             AllBlueprintArgs, {<<<<"a">> \o DOT_HTML, <<"a">> \o DOT_TXT>>})

\* every notebook directory, the default blueprints
InitNotebooks ==
    InitWith({[DefaultConfig |-> {"DEBUG"}, DEVELOPMENT |-> {"DEBUG"},
               PRODUCTION |-> {"DEBUG"}]},
             {[given |-> TRUE, attrs |-> Attrs]}, {NoFile}, {Unset}, {"given"},
             {NoList}, Listings)

\* create_app lines 26-33: the defaults of app_name and blueprints, then Flask(app_name).
\* config.APP_NAME raises AttributeError when config is None or has no APP_NAME
CreateFlask ==
    /\ pc = "start"
    /\ IF app_name = "None" /\ "APP_NAME" \notin config.attrs
       THEN /\ pc' = "failed"
            /\ UNCHANGED <<app_name, blueprints>>
       ELSE /\ pc' = "instantiated"
            /\ app_name' = IF app_name = "None" THEN "config.APP_NAME" ELSE app_name
            /\ blueprints' = IF blueprints.is_none THEN List(DEFAULT_BLUEPRINTS)
                             ELSE blueprints
    /\ UNCHANGED <<inputs, appvars, reqvars>>

\* configure_app(app, config)
ConfigureApp ==
    /\ pc = "instantiated"
    /\ LET result == configure_app IN
       /\ app_config' = result.config
       /\ layers' = IF result.raised
                    THEN SubSeq(config_layers, 1, Len(config_layers) - 2)
                    ELSE config_layers
       /\ pc' = IF result.raised THEN "failed" ELSE "configured"
    /\ UNCHANGED <<inputs, app_name, blueprints, extensions, db_config, registered,
                   error_handlers, reqvars>>

\* configure_extensions with mail.init_app(app) not commented out
ConfigureExtensionsWithMail ==
    /\ pc = "configured"
    /\ extensions' = extensions \cup {"db", "mail"}
    /\ db_config' = app_config
    /\ pc' = "extensions"
    /\ UNCHANGED <<inputs, app_name, blueprints, app_config, layers, registered,
                   error_handlers, reqvars>>

\* configure_extensions callable before configure_app has run
ConfigureExtensionsEarly ==
    /\ pc \in {"instantiated", "configured"}
    /\ extensions' = extensions \cup {"db"}
    /\ db_config' = app_config
    /\ pc' = "extensions"
    /\ UNCHANGED <<inputs, app_name, blueprints, app_config, layers, registered,
                   error_handlers, reqvars>>

\* configure_extensions(app): db.init_app(app); mail.init_app(app) is commented out
ConfigureExtensions ==
    /\ pc = "configured"
    /\ extensions' = extensions \cup {"db"}
    /\ db_config' = app_config
    /\ pc' = "extensions"
    /\ UNCHANGED <<inputs, app_name, blueprints, app_config, layers, registered,
                   error_handlers, reqvars>>

\* configure_blueprints(app, blueprints): the whole loop
ConfigureBlueprints ==
    /\ pc = "extensions"
    /\ registered' = registered \o blueprints.list
    /\ pc' = "blueprints"
    /\ UNCHANGED <<inputs, app_name, blueprints, app_config, layers, extensions,
                   db_config, error_handlers, reqvars>>

\* configure_hooks(app): pass
ConfigureHooks ==
    /\ pc = "blueprints"
    /\ pc' = "hooks"
    /\ UNCHANGED <<inputs, app_name, blueprints, appvars, reqvars>>

\* configure_error_handlers(app)
ConfigureErrorHandlers ==
    /\ pc = "hooks"
    /\ error_handlers' = error_handlers \cup ErrorHandlers
    /\ pc' = "handlers"
    /\ UNCHANGED <<inputs, app_name, blueprints, app_config, layers, extensions,
                   db_config, registered, reqvars>>

\* return app
Return ==
    /\ pc = "handlers"
    /\ pc' = "done"
    /\ UNCHANGED <<inputs, app_name, blueprints, appvars, reqvars>>

----------------------------------------------------------------------------
(* Requests to the returned app *)

Serve(path, notebook_name) ==
    /\ request' = [NoRequest EXCEPT !.path = path, !.notebook_name = notebook_name]
    /\ endpoint' = url_map(path)
    /\ response' = full_dispatch_request(dispatch_request(path, notebook_name))
    /\ UNCHANGED <<inputs, app_name, blueprints, pc, appvars>>

GetHealth ==
    /\ pc = "done"
    /\ Serve("/health", <<>>)

GetNotebooks ==
    /\ pc = "done"
    /\ Serve("/notebooks", <<>>)

\* the names asked for: every listed notebook, one that may exist, one that does not
RequestNames ==
    Range(html_file_roots(html_files(templates_dir))) \cup {<<"a">>, <<"z">>}

GetNotebook ==
    /\ pc = "done"
    /\ \E notebook_name \in RequestNames :
          Serve("/notebooks/<notebook_name>", notebook_name)

\* a view or the routing raises an HTTPException
RaiseInRoute == \E kind \in HTTPKinds : \E description \in Descriptions(kind) :
    /\ pc = "done"
    /\ request' = [NoRequest EXCEPT !.path = "*", !.raises = kind,
                                    !.description = description]
    /\ endpoint' = "view"
    /\ response' = full_dispatch_request(Raised(HTTPError(kind, description)))
    /\ UNCHANGED <<inputs, app_name, blueprints, pc, appvars>>

Next ==
    \/ CreateFlask
    \/ ConfigureApp
    \/ ConfigureExtensions
    \/ ConfigureBlueprints
    \/ ConfigureHooks
    \/ ConfigureErrorHandlers
    \/ Return
    \/ GetHealth
    \/ GetNotebooks
    \/ GetNotebook
    \/ RaiseInRoute

Spec == Init /\ [][Next]_vars

SpecNotebooks == InitNotebooks /\ [][Next]_vars

----------------------------------------------------------------------------
(* Configuration layering *)

\* the position of a source in the order configure_app is documented to apply
SourceOrder == <<"DefaultConfig", "config", "APPNAME_CONFIG", "mode">>

SourceName(i) == IF SourceOrder[i] = "mode" THEN application_mode ELSE SourceOrder[i]

\* source i is present and defines key
SourceSets(i, key) ==
    CASE SourceOrder[i] = "DefaultConfig" -> key \in Config.DefaultConfig
      [] SourceOrder[i] = "config" -> config.given /\ key \in config.attrs
      [] SourceOrder[i] = "APPNAME_CONFIG" ->
            environ.APPNAME_CONFIG.set /\ key \in environ.APPNAME_CONFIG.attrs
      [] SourceOrder[i] = "mode" ->
            key \in (IF environ.APPLICATION_MODE = Unset THEN Config.DEVELOPMENT
                     ELSE Config[environ.APPLICATION_MODE])

LastSource(key) ==
    IF \E i \in 1..4 : SourceSets(i, key)
    THEN SourceName(CHOOSE i \in 1..4 :
                        SourceSets(i, key) /\ \A j \in (i+1)..4 : ~SourceSets(j, key))
    ELSE Unset

Configured == pc \in {"configured", "extensions", "blueprints", "hooks", "handlers", "done"}

\* C1: after configure_app every settings key holds the value of the last
\* source, in the order DefaultConfig, caller config, APPNAME_CONFIG file,
\* deployment-mode object, that sets it; the mode object overrides all others.
C1_LastSourceWins ==
    Configured => \A key \in {k \in Attrs : isupper(k)} : app_config[key] = LastSource(key)

C1_Witness ==
    /\ pc = "done"
    /\ config.given /\ environ.APPNAME_CONFIG.set
    /\ \A i \in 1..4 : SourceSets(i, "DEBUG")
    /\ app_config["DEBUG"] = "PRODUCTION"
    /\ app_config["APP_NAME"] = "config"

----------------------------------------------------------------------------
(* Error translation *)

\* C2: a BadRequest, NotFound, Unauthorized or Forbidden raised in a route is
\* answered by the JSON error envelope with the exception's HTTP status code
\* and the exception's description as message.
C2_HandledKindsEnvelope ==
    request.raises \in {"BadRequest", "NotFound", "Unauthorized", "Forbidden"} =>
        /\ response.kind = "error"
        /\ response.status = HTTPCode[request.raises]
        /\ response.code = HTTPCode[request.raises]
        /\ response.message = request.description

C2_Witness ==
    /\ request.raises = "NotFound"
    /\ request.description = "custom description"
    /\ response.kind = "error"
    /\ response.status = 404

\* C3: a BadGateway raised in a route is answered by the error envelope of the
\* bad-request handler, sent with the original status code 502 and not 400.
C3_BadGatewayKeepsCode ==
    request.raises = "BadGateway" =>
        /\ response.kind = "error"
        /\ response.status = 502
        /\ response.code = 502
        /\ response.status # HTTPCode.BadRequest

C3_Witness ==
    /\ request.raises = "BadGateway"
    /\ response.kind = "error"
    /\ response.status = 502

----------------------------------------------------------------------------
(* The factory *)

\* C4: create_app has no error outcome, whatever config, app_name,
\* APPNAME_CONFIG and APPLICATION_MODE are.
C4_NoErrorOutcome == pc # "failed"

HandledKinds == {"BadRequest", "NotFound", "Unauthorized", "Forbidden", "BadGateway"}

\* C7: create_app instantiates the app, then applies every configuration
\* layer, then initializes the extensions, then registers every blueprint of
\* the list, then registers the error handlers, and returns only then; the
\* extensions see the fully resolved configuration.
C7_FactoryOrder ==
    /\ layers # <<>> => app_name # "None" /\ ~blueprints.is_none
    /\ "db" \in extensions =>
          /\ layers # <<>> /\ layers[Len(layers)] \in Modes
          /\ db_config = app_config
          /\ \A key \in {k \in Attrs : isupper(k)} : db_config[key] = LastSource(key)
    /\ registered # <<>> => "db" \in extensions
    /\ error_handlers # {} => "db" \in extensions /\ registered = blueprints.list
    /\ pc = "done" =>
          /\ registered = blueprints.list
          /\ \A kind \in HandledKinds : \E h \in error_handlers : h[1] = kind

C7_Witness ==
    /\ pc = "done"
    /\ layers = <<"DefaultConfig", "config", "APPNAME_CONFIG", "PRODUCTION">>
    /\ db_config["DEBUG"] = "PRODUCTION"
    /\ registered = <<"frontend", "health">>
    /\ error_handlers = ErrorHandlers

\* C8 as stated: when create_app returns, the database binding and the mail
\* binding have both been initialized.
C8_TwoExtensions == pc = "done" => extensions = {"db", "mail"}

\* C8 amended: when create_app returns, exactly one extension has been
\* initialized against the app, the database binding; the mail binding has not.
C8_OnlyDatabaseBound == pc = "done" => extensions = {"db"}

C8_Witness == pc = "done" /\ "db" \in extensions /\ "mail" \notin extensions

----------------------------------------------------------------------------
(* Routes *)

HealthOK == response.kind = "success" /\ response.status = 200 /\ response.message = "OK"

\* C5 as stated: GET /health on an app built by create_app always returns
\* status 200 with the success envelope carrying "OK".
C5_HealthAlwaysOK == request.path = "/health" => HealthOK

\* C5 amended: GET /health returns status 200 with the success envelope
\* carrying "OK" on every app whose registered blueprints include health.
C5_HealthOKWhenRegistered ==
    request.path = "/health" /\ "health" \in Range(registered) => HealthOK

C5_Witness ==
    /\ request.path = "/health"
    /\ config.given /\ environ.APPNAME_CONFIG.set /\ environ.APPLICATION_MODE = "PRODUCTION"
    /\ registered = <<"frontend", "health">>
    /\ HealthOK

\* the positions of the ".html" entries of the listing, and the k-th of them
HtmlPositions == {i \in 1..Len(templates_dir) : endswith(templates_dir[i], DOT_HTML)}

NthHtml(k) ==
    CHOOSE i \in HtmlPositions : Cardinality({j \in HtmlPositions : j <= i}) = k

\* an entry name without its ".html"
BaseName(entry) == SubSeq(entry, 1, Len(entry) - Len(DOT_HTML))

\* C6: GET /notebooks passes to the template exactly the names, ".html"
\* stripped, of the entries ending in ".html", in directory-listing order.
C6_ListsHtmlBaseNames ==
    endpoint = "frontend.notebook_index" =>
        /\ response.kind = "html"
        /\ Len(response.notebooks) = Cardinality(HtmlPositions)
        /\ \A k \in 1..Cardinality(HtmlPositions) :
              response.notebooks[k] = BaseName(templates_dir[NthHtml(k)])

\* C9: GET /notebooks/<name> renders jupyter_notebooks/<name>.html without an
\* existence check; a name with no such template ends in an unhandled
\* TemplateNotFound, not in the NotFound error envelope with status 404.
C9_UnmatchedNameUnhandled ==
    endpoint = "frontend.jupyter_notebook" =>
        IF \E i \in 1..Len(templates_dir) :
               templates_dir[i] = request.notebook_name \o DOT_HTML
        THEN /\ response.kind = "html"
             /\ response.template = <<"jupyter_notebooks", request.notebook_name \o DOT_HTML>>
        ELSE /\ response.kind = "unhandled"
             /\ response.message = "TemplateNotFound"
             /\ ~(response.kind = "error" /\ response.status = 404)

C9_Witness ==
    /\ endpoint = "frontend.jupyter_notebook"
    /\ request.notebook_name = <<"z">>
    /\ templates_dir # <<>>
    /\ response.kind = "unhandled"

\* C10: every name GET /notebooks lists is a name for which
\* GET /notebooks/<name> renders the directory entry the name was derived from.
C10_ListedNameRendersItsEntry ==
    endpoint = "frontend.jupyter_notebook" =>
        \A i \in 1..Len(html_files(templates_dir)) :
            html_file_roots(html_files(templates_dir))[i] = request.notebook_name =>
                /\ response.kind = "html"
                /\ response.template = <<"jupyter_notebooks", html_files(templates_dir)[i]>>

====
